---- MODULE Spec2Model ----
(***************************************************************************)
(* Model of the acas simplification engine: constants, the canonical      *)
(* order on simple expressions, the generic Sum/Product merge framework,  *)
(* power simplification and the top-level recursive simplify.             *)
(*                                                                         *)
(* Expressions (basic and simple) are uniform records                     *)
(*   [t |-> tag, c |-> constant, s |-> name, l |-> children]              *)
(* with tag in {"Const","Symbol","Product","Sum","Pow","Factorial",       *)
(* "Function"}; Pow(b, e) keeps <<b, e>> in l.  A constant is a pair      *)
(* <<num, den>> (lowest terms, den > 0, except raw literals with den 0).  *)
(* A computation result is [k |-> "ok" | "undef" | "panic", v |-> value]. *)
(***************************************************************************)
EXTENDS Integers, Sequences, FiniteSets, TLC

(*************************** Rational kernel ******************************)

Abs(n) == IF n < 0 THEN -n ELSE n

RECURSIVE GCD(_, _)
GCD(a, b) == IF b = 0 THEN a ELSE GCD(b, a % b)

\* Constant stored in lowest terms with a positive denominator.
Norm(n, d) ==
  LET g == GCD(Abs(n), Abs(d))
      s == IF d < 0 THEN -1 ELSE 1
  IN IF n = 0 THEN <<0, 1>> ELSE <<s * (n \div g), Abs(d) \div g>>

CAdd(x, y) == Norm(x[1] * y[2] + y[1] * x[2], x[2] * y[2])
CMul(x, y) == Norm(x[1] * y[1], x[2] * y[2])
CIsZero(x) == x[1] = 0
CIsOne(x) == x[1] = x[2]
CIsPositive(x) == x[1] > 0
CIsInteger(x) == x[2] = 1
\* Constant ordering by numeric value (denominators positive).
CCmp(x, y) == LET l == x[1] * y[2]
                  r == y[1] * x[2]
              IN IF l < r THEN -1 ELSE IF l = r THEN 0 ELSE 1

RECURSIVE CPowNat(_, _)
CPowNat(x, n) == IF n = 0 THEN <<1, 1>> ELSE CMul(x, CPowNat(x, n - 1))

(*************************** Expressions *********************************)

Mk(t, c, s, l) == [t |-> t, c |-> c, s |-> s, l |-> l]
Const(n) == Mk("Const", Norm(n, 1), "", <<>>)
ConstC(c) == Mk("Const", c, "", <<>>)
\* A raw literal n/d, possibly with a zero denominator.
Lit(n, d) == Mk("Const", <<n, d>>, "", <<>>)
Symbol(s) == Mk("Symbol", <<0, 1>>, s, <<>>)
Product(l) == Mk("Product", <<0, 1>>, "", l)
Sum(l) == Mk("Sum", <<0, 1>>, "", l)
Pow(b, e) == Mk("Pow", <<0, 1>>, "", <<b, e>>)
Factorial(a) == Mk("Factorial", <<0, 1>>, "", <<a>>)
Function(s, args) == Mk("Function", <<0, 1>>, s, args)
NoExpr == Mk("None", <<0, 1>>, "", <<>>)

\* `x == n` for an i64 n (helpers.rs PartialEq<i64> for SimpleExpr)
\* Ratio::cmp against n/1: with a zero denominator it returns Equal for equal
\* zero numerators, "not equal" for other equal numerators, and otherwise
\* divides by zero (div_mod_floor) and panics.
EqIntR(e, n) ==
  IF e.t # "Const" THEN "false"
  ELSE IF e.c[2] = 0 THEN
    (IF e.c[1] = n THEN (IF n = 0 THEN "true" ELSE "false") ELSE "panic")
  ELSE IF e.c[1] = n * e.c[2] THEN "true" ELSE "false"
EqInt(e, n) == EqIntR(e, n) = "true"

Ok(v) == [k |-> "ok", v |-> v]
Undef == [k |-> "undef", v |-> NoExpr]
Panic == [k |-> "panic", v |-> NoExpr]

(*************************** Canonical order *****************************)

\* Names are single letters; String::cmp on them is alphabetical.
NameOrder == <<"f", "g", "x", "y", "z">>
NameRank(s) == CHOOSE i \in 1..Len(NameOrder) : NameOrder[i] = s
StrCmp(a, b) == IF NameRank(a) < NameRank(b) THEN -1
                ELSE IF a = b THEN 0 ELSE 1
IntCmp(a, b) == IF a < b THEN -1 ELSE IF a = b THEN 0 ELSE 1
Min(a, b) == IF a < b THEN a ELSE b

RECURSIVE Cmp(_, _), CmpListFrom(_, _, _), CmpLexFrom(_, _, _)

\* cmp_list: zip(a, b).rev(), then lengths
CmpListFrom(a, b, i) ==
  IF i = 0 THEN IntCmp(Len(a), Len(b))
  ELSE LET r == Cmp(a[i], b[i])
       IN IF r # 0 THEN r ELSE CmpListFrom(a, b, i - 1)

cmp_list(a, b) == CmpListFrom(a, b, Min(Len(a), Len(b)))

\* Ord for Vec: forward lexicographic
CmpLexFrom(a, b, i) ==
  IF i > Len(a) \/ i > Len(b) THEN IntCmp(Len(a), Len(b))
  ELSE LET r == Cmp(a[i], b[i])
       IN IF r # 0 THEN r ELSE CmpLexFrom(a, b, i + 1)

\* Ord for the tuple (x1, y1) vs (x2, y2)
CmpPair(x1, y1, x2, y2) ==
  LET r == Cmp(x1, x2) IN IF r # 0 THEN r ELSE Cmp(y1, y2)

\* common_ord! / Ord for SimpleExpr; -1 Less, 0 Equal, 1 Greater
Cmp(a, b) ==
  IF a = b THEN 0
  ELSE IF a.t = "Const" /\ b.t = "Const" THEN CCmp(a.c, b.c)
  ELSE IF a.t = "Const" THEN -1
  ELSE IF b.t = "Const" THEN 1
  ELSE IF a.t = "Product" /\ b.t = "Product" THEN cmp_list(a.l, b.l)
  ELSE IF a.t = "Product" THEN cmp_list(a.l, <<b>>)
  ELSE IF b.t = "Product" THEN -cmp_list(<<a>>, b.l)
  ELSE IF a.t = "Pow" /\ b.t = "Pow" THEN CmpPair(a.l[1], a.l[2], b.l[1], b.l[2])
  ELSE IF a.t = "Pow" THEN CmpPair(a.l[1], a.l[2], b, Const(1))
  ELSE IF b.t = "Pow" THEN CmpPair(a, Const(1), b.l[1], b.l[2])
  ELSE IF a.t = "Sum" /\ b.t = "Sum" THEN cmp_list(a.l, b.l)
  ELSE IF a.t = "Sum" THEN cmp_list(a.l, <<b>>)
  ELSE IF b.t = "Sum" THEN -cmp_list(<<a>>, b.l)
  ELSE IF a.t = "Factorial" /\ b.t = "Factorial" THEN Cmp(a.l[1], b.l[1])
  ELSE IF a.t = "Factorial" THEN (IF a.l[1] = b THEN 1 ELSE Cmp(a.l[1], b))
  ELSE IF b.t = "Factorial" THEN (IF b.l[1] = a THEN -1 ELSE Cmp(a, b.l[1]))
  ELSE IF a.t = "Function" /\ b.t = "Function"
       THEN (IF a.s = b.s THEN CmpLexFrom(a.l, b.l, 1) ELSE StrCmp(a.s, b.s))
  ELSE IF a.t = "Function" /\ b.t = "Symbol"
       THEN (IF a.s = b.s THEN 1 ELSE StrCmp(a.s, b.s))
  ELSE IF a.t = "Symbol" /\ b.t = "Function"
       THEN (IF a.s = b.s THEN -1 ELSE StrCmp(a.s, b.s))
  ELSE StrCmp(a.s, b.s)

Less(a, b) == Cmp(a, b) = -1

\* slice::sort_unstable on short slices: insertion sort, shifting the new
\* element left while is_less(new, previous).
RECURSIVE InsertTail(_, _)
InsertTail(s, e) ==
  IF s = <<>> THEN <<e>>
  ELSE IF Less(e, s[Len(s)]) THEN Append(InsertTail(SubSeq(s, 1, Len(s) - 1), e), s[Len(s)])
  ELSE Append(s, e)

RECURSIVE SortFrom(_, _)
SortFrom(sorted, rest) ==
  IF rest = <<>> THEN sorted ELSE SortFrom(InsertTail(sorted, Head(rest)), Tail(rest))

sort_unstable(l) == SortFrom(<<>>, l)

(*************************** RationalExpr *******************************)

\* RationalExpr::Mul(list).simplify(): product of the constants
RECURSIVE MulAll(_)
MulAll(l) == IF l = <<>> THEN <<1, 1>> ELSE CMul(Head(l), MulAll(Tail(l)))

\* (rationala + rationalb).simplify().into_algebraic_expr()
RationalAdd(x, y) == Ok(ConstC(CAdd(x, y)))

\* RationalExpr::Pow(c, n).simplify().into(): negative n via reciprocal,
\* Undefined for a zero base with negative n.
RationalPow(c, n) ==
  IF n >= 0 THEN Ok(ConstC(CPowNat(c, n)))
  ELSE IF CIsZero(c) THEN Undef
  ELSE LET p == CPowNat(c, -n) IN Ok(ConstC(Norm(p[2], p[1])))

(*************************** SimpleExpr helpers *************************)

None == [some |-> FALSE, v |-> NoExpr]
Some(v) == [some |-> TRUE, v |-> v]

base(x) == IF x.t = "Pow" THEN Some(x.l[1])
           ELSE IF x.t = "Const" THEN None ELSE Some(x)

exponent(x) == IF x.t = "Pow" THEN Some(x.l[2])
               ELSE IF x.t = "Const" THEN None ELSE Some(Const(1))

\* split_product: [k, coef, sym]; Err(self) ("err") for a constant, and the
\* unreachable! panic for a product of constants only.
SplitPanic == [k |-> "panic", coef |-> <<1, 1>>, sym |-> NoExpr]
split_product(x) ==
  IF x.t = "Product" THEN
    IF \A i \in 1..Len(x.l) : x.l[i].t = "Const" THEN SplitPanic
    ELSE LET i0 == CHOOSE i \in 1..Len(x.l) :
                      x.l[i].t # "Const" /\ \A j \in 1..(i - 1) : x.l[j].t = "Const"
             syms == SubSeq(x.l, i0, Len(x.l))
         IN [k |-> "ok",
             coef |-> MulAll([j \in 1..(i0 - 1) |-> x.l[j].c]),
             sym |-> IF Len(syms) = 1 THEN syms[1] ELSE Product(syms)]
  ELSE IF x.t = "Const" THEN [k |-> "err", coef |-> <<1, 1>>, sym |-> x]
  ELSE [k |-> "ok", coef |-> <<1, 1>>, sym |-> x]

(*************************** Operation (Sum / Product) *******************)

Ops == {"Sum", "Product"}
HAS_ABSORBING_ELEMENT(op) == op = "Product"
is_absorbing_element(op, x) == op = "Product" /\ x.t = "Const" /\ CIsZero(x.c)
identity(op) == IF op = "Sum" THEN Const(0) ELSE Const(1)
is_identity(op, c) == IF op = "Sum" THEN CIsZero(c) ELSE CIsOne(c)
is_list(op, x) == x.t = op
extract_or_make_list(op, x) == IF x.t = op THEN x.l ELSE <<x>>
make_list(op, l) == Mk(op, <<0, 1>>, "", l)
do_constant(op, x, y) == IF op = "Sum" THEN CAdd(x, y) ELSE CMul(x, y)

ErrE(k) == [k |-> k, v |-> NoExpr]
ErrL(k) == [k |-> k, v |-> <<>>]
CollNone == [k |-> "ok", some |-> FALSE, v |-> <<>>]
CollSome(l) == [k |-> "ok", some |-> TRUE, v |-> l]
CollErr(k) == [k |-> k, some |-> FALSE, v |-> <<>>]

\* The engine's functions are mutually recursive.  Their recursive calls go
\* through Call (defined at the end of this section), which dispatches a call
\* record [fn |-> function name, ...arguments] to the function it names.

RECURSIVE Call(_)

merge(op, a, b) == Call([fn |-> "merge_into", op |-> op, a |-> a, b |-> b, out |-> <<>>])

simplify_rec(op, list) ==
  IF Len(list) = 2 THEN Call([fn |-> "simplify_pair", op |-> op, a |-> list[1], b |-> list[2]])
  ELSE IF Len(list) > 2 THEN merge(op, extract_or_make_list(op, list[1]), Tail(list))
  ELSE ErrL("panic")

simplify_pair(op, a, b) ==
  IF is_list(op, a) \/ is_list(op, b)
  THEN merge(op, extract_or_make_list(op, a), extract_or_make_list(op, b))
  ELSE IF a.t = "Const" /\ b.t = "Const"
  THEN LET r == do_constant(op, a.c, b.c)
       IN IF CIsOne(r) THEN Ok(<<>>) ELSE Ok(<<ConstC(r)>>)
  ELSE IF a.t = "Const" /\ is_identity(op, a.c) THEN Ok(<<b>>)
  ELSE IF b.t = "Const" /\ is_identity(op, b.c) THEN Ok(<<a>>)
  ELSE LET r == Call([fn |-> "simplify_pair_collect", op |-> op, a |-> a, b |-> b])
       IN IF r.k # "ok" THEN ErrL(r.k)
          ELSE IF r.some THEN Ok(r.v)
          ELSE IF Less(b, a) THEN Ok(<<b, a>>) ELSE Ok(<<a, b>>)

MergeCall(op, a, b, out) == [fn |-> "merge_into", op |-> op, a |-> a, b |-> b, out |-> out]

\* The SmallVec returned by simplify_pair is spilled to the heap when it
\* came from the nested-list branch: merge allocates Vec::with_capacity of
\* the two lists' total length, and SmallVec::from(Vec) keeps a buffer of
\* capacity > 2 on the heap, so into_inner() fails on it.
spilled(op, a, b) ==
  /\ is_list(op, a) \/ is_list(op, b)
  /\ Len(extract_or_make_list(op, a)) + Len(extract_or_make_list(op, b)) > 2

merge_into(op, a, b, out) ==
  IF b = <<>> THEN Ok(out \o a)
  ELSE IF a = <<>> THEN Ok(out \o b)
  ELSE LET would_swap == Cmp(Head(a), Head(b)) = 1
           s == Call([fn |-> "simplify_pair", op |-> op, a |-> Head(a), b |-> Head(b)])
       IN IF s.k # "ok" THEN s
          ELSE IF Len(s.v) = 0 THEN Call(MergeCall(op, Tail(a), Tail(b), out))
          ELSE IF Len(s.v) = 1 THEN Call(MergeCall(op, Tail(a), Tail(b), out \o s.v))
          ELSE IF Len(s.v) = 2 /\ spilled(op, Head(a), Head(b)) THEN ErrL("panic")
          ELSE IF Len(s.v) = 2
          THEN IF would_swap
               THEN Call(MergeCall(op, <<s.v[2]>> \o Tail(a), Tail(b), Append(out, s.v[1])))
               ELSE Call(MergeCall(op, Tail(a), <<s.v[2]>> \o Tail(b), Append(out, s.v[1])))
          ELSE ErrL("panic")

simplify(op, exprs) ==
  IF HAS_ABSORBING_ELEMENT(op) /\ \E i \in 1..Len(exprs) : is_absorbing_element(op, exprs[i])
  THEN Ok(Const(0))
  ELSE IF Len(exprs) = 1 THEN Ok(exprs[1])
  ELSE LET r == simplify_rec(op, exprs)
       IN IF r.k # "ok" THEN ErrE(r.k)
          ELSE IF Len(r.v) = 0 THEN Ok(identity(op))
          ELSE IF Len(r.v) = 1 THEN Ok(r.v[1])
          ELSE Ok(make_list(op, r.v))

SimplifyCall(op, exprs) == [fn |-> "simplify", op |-> op, exprs |-> exprs]
PowerCall(b, e) == [fn |-> "simplify_power", b |-> b, e |-> e]

simplify_pair_collect(op, a, b) ==
  IF op = "Product" THEN
    LET ba == base(a)
        bb == base(b)
    IN IF ba.some /\ bb.some /\ ba.v = bb.v THEN
         LET ex == Call(SimplifyCall("Sum", <<exponent(a).v, exponent(b).v>>))
             res == Call(PowerCall(ba.v, ex.v))
         IN IF ex.k # "ok" THEN CollErr(ex.k)
            ELSE IF res.k # "ok" THEN CollErr(res.k)
            ELSE IF res.v.t = "Const" /\ CIsOne(res.v.c) THEN CollSome(<<>>)
            ELSE CollSome(<<res.v>>)
       ELSE CollNone
  ELSE
    LET sa == split_product(a)
        sb == split_product(b)
    \* .expect("must not be constant") panics on Err
    IN IF sa.k # "ok" THEN CollErr("panic")
       ELSE IF sb.k # "ok" THEN CollErr("panic")
       ELSE IF sa.sym = sb.sym THEN
         LET sum == RationalAdd(sa.coef, sb.coef)
             p == Call([fn |-> "simplify_pair", op |-> "Product", a |-> sum.v, b |-> sa.sym])
         IN IF sum.k # "ok" THEN CollErr(sum.k)
            ELSE IF p.k # "ok" THEN CollErr(p.k)
            ELSE CollSome(<<Product(p.v)>>)
       ELSE CollNone

IntPowerCall(b, n) == [fn |-> "simplify_integer_power", b |-> b, n |-> n]

simplify_integer_power(b, n) ==
  IF n = 0 THEN Ok(Const(1))
  ELSE IF n = 1 THEN Ok(b)
  ELSE IF b.t = "Const" THEN RationalPow(b.c, n)
  ELSE IF b.t = "Pow" THEN
    LET e == Call(SimplifyCall("Product", <<Const(n), b.l[2]>>))
    IN IF e.k # "ok" THEN e
       ELSE IF e.v.t = "Const" /\ CIsInteger(e.v.c)
            THEN Call(IntPowerCall(b.l[1], e.v.c[1]))
            ELSE Ok(Pow(b.l[1], e.v))
  ELSE Panic

\* simplify_power without the `base == 1` case
simplify_power_no_one(b, e) ==
  IF EqIntR(b, 0) = "panic" THEN Panic
  ELSE IF EqInt(b, 0) THEN
    IF e.t = "Const" THEN (IF CIsPositive(e.c) THEN Ok(Const(0)) ELSE Undef)
    ELSE Ok(Pow(b, e))
  ELSE IF e.t = "Const" /\ CIsInteger(e.c) THEN Call(IntPowerCall(b, e.c[1]))
  ELSE Ok(Pow(b, e))

simplify_power(b, e) ==
  IF EqIntR(b, 0) = "panic" \/ (~EqInt(b, 0) /\ EqIntR(b, 1) = "panic") THEN Panic
  ELSE IF EqInt(b, 0) THEN
    IF e.t = "Const" THEN (IF CIsPositive(e.c) THEN Ok(Const(0)) ELSE Undef)
    ELSE Ok(Pow(b, e))
  ELSE IF EqInt(b, 1) THEN Ok(Const(1))
  ELSE IF e.t = "Const" /\ CIsInteger(e.c) THEN Call(IntPowerCall(b, e.c[1]))
  ELSE Ok(Pow(b, e))

(*************************** BasicAlgebraicExpr::simplify ***************)

ExprCall(e) == [fn |-> "simplify_expr", e |-> e]
MapCall(l, i, acc) == [fn |-> "map_simplify", l |-> l, i |-> i, acc |-> acc]

\* exprs.into_iter().map(simplify).collect::<Result<_,_>>(): stops at the
\* first child that fails (Undefined) or panics.
MapSimplify(l, i, acc) ==
  IF i > Len(l) THEN Ok(acc)
  ELSE LET r == Call(ExprCall(l[i]))
       IN IF r.k # "ok" THEN ErrL(r.k) ELSE Call(MapCall(l, i + 1, Append(acc, r.v)))

simplify_entry(op, exprs) ==
  LET r == Call(MapCall(exprs, 1, <<>>))
  IN IF r.k # "ok" THEN ErrE(r.k) ELSE Call(SimplifyCall(op, sort_unstable(r.v)))

simplify_expr(e) ==
  IF e.t = "Const" THEN (IF e.c[2] = 0 THEN Undef ELSE Ok(e))
  ELSE IF e.t = "Symbol" THEN Ok(e)
  ELSE IF e.t = "Pow" THEN
    LET b == Call(ExprCall(e.l[1]))
        x == Call(ExprCall(e.l[2]))
    IN IF b.k # "ok" THEN b ELSE IF x.k # "ok" THEN x ELSE Call(PowerCall(b.v, x.v))
  ELSE IF e.t \in Ops THEN simplify_entry(e.t, e.l)
  ELSE Panic

Call(c) ==
  CASE c.fn = "simplify_pair" -> simplify_pair(c.op, c.a, c.b)
    [] c.fn = "merge_into" -> merge_into(c.op, c.a, c.b, c.out)
    [] c.fn = "simplify" -> simplify(c.op, c.exprs)
    [] c.fn = "simplify_pair_collect" -> simplify_pair_collect(c.op, c.a, c.b)
    [] c.fn = "simplify_power" -> simplify_power(c.b, c.e)
    [] c.fn = "simplify_integer_power" -> simplify_integer_power(c.b, c.n)
    [] c.fn = "map_simplify" -> MapSimplify(c.l, c.i, c.acc)
    [] c.fn = "simplify_expr" -> simplify_expr(c.e)

\* BasicAlgebraicExpr::simplify(e)
SimplifyBasic(e) == Call(ExprCall(e))

(*************************** parse::Tokenizer *****************************)

Digits == <<"0", "1", "2", "3", "4", "5", "6", "7", "8", "9">>
DigitSet == {Digits[i] : i \in 1..10}
DigitVal(ch) == CHOOSE i \in 0..9 : Digits[i + 1] = ch
Letters == {"a", "b", "c", "d", "e", "f", "g", "h", "i", "j", "k", "l", "m",
            "n", "o", "p", "q", "r", "s", "t", "u", "v", "w", "x", "y", "z",
            "A", "B", "C", "D", "E", "F", "G", "H", "I", "J", "K", "L", "M",
            "N", "O", "P", "Q", "R", "S", "T", "U", "V", "W", "X", "Y", "Z"}

\* One-character tokens of scan_token
Punct == [ch \in {"(", ")", "[", "]", "+", "-", "*", "/", "^", "!", ","} |->
            CASE ch = "(" -> "LeftParen" [] ch = ")" -> "RightParen"
              [] ch = "[" -> "LeftBr" [] ch = "]" -> "RightBr"
              [] ch = "+" -> "Add" [] ch = "-" -> "Sub" [] ch = "*" -> "Mul"
              [] ch = "/" -> "Div" [] ch = "^" -> "Pow" [] ch = "!" -> "Factorial"
              [] ch = "," -> "Comma"]

Tok(k) == [k |-> k, n |-> 0, cs |-> <<>>]

\* First index k >= i with t[k] not in S (Len(t) + 1 when there is none)
SpanEnd(t, i, S) == CHOOSE k \in i..(Len(t) + 1) :
                      /\ \A m \in i..(k - 1) : t[m] \in S
                      /\ k > Len(t) \/ t[k] \notin S

RECURSIVE DigitsVal(_, _, _)
DigitsVal(t, i, j) == IF j < i THEN 0 ELSE DigitsVal(t, i, j - 1) * 10 + DigitVal(t[j])

\* scan_tokens: skip_whitespace, then one token per scan_token call; a
\* character outside the accepted set reaches panic!
RECURSIVE scan_tokens(_, _, _)
scan_tokens(t, i, acc) ==
  LET st == SpanEnd(t, i, {" "}) IN
  IF st > Len(t) THEN [k |-> "ok", v |-> acc]
  ELSE LET ch == t[st] IN
    IF ch \in DOMAIN Punct THEN scan_tokens(t, st + 1, Append(acc, Tok(Punct[ch])))
    ELSE IF ch \in DigitSet THEN
      LET e == SpanEnd(t, st + 1, DigitSet)
      IN scan_tokens(t, e, Append(acc, [k |-> "Number", n |-> DigitsVal(t, st, e - 1), cs |-> <<>>]))
    ELSE IF ch \in Letters THEN
      LET e == SpanEnd(t, st + 1, Letters)
      IN scan_tokens(t, e, Append(acc, [k |-> "Symbol", n |-> 0, cs |-> SubSeq(t, st, e - 1)]))
    ELSE [k |-> "panic", v |-> acc]

(*************************** parse::expression_parser ********************)

Neg(a) == Mk("Neg", <<0, 1>>, "", <<a>>)
PAdd(a, b) == Sum(<<a, b>>)
PSub(a, b) == Sum(<<a, Neg(b)>>)
PMul(a, b) == Product(<<a, b>>)
PDiv(a, b) == Product(<<a, Pow(b, Const(-1))>>)

RECURSIVE StrOf(_)
StrOf(cs) == IF cs = <<>> THEN "" ELSE Head(cs) \o StrOf(Tail(cs))

PFail == [ok |-> FALSE, v |-> NoExpr, p |-> 0]
POk(v, p) == [ok |-> TRUE, v |-> v, p |-> p]
PC(fn, tk, p, acc) == [fn |-> fn, tk |-> tk, p |-> p, acc |-> acc]
KindAt(tk, p) == IF p <= Len(tk) THEN tk[p].k ELSE "End"

\* The recursive(|expr| ...) parser, one operator per combinator; `or` is
\* ordered choice, `repeated` stops at the first failing iteration.
RECURSIVE PCall(_)
PCall(c) ==
  LET tk == c.tk
      p == c.p
  IN CASE c.fn = "expr" -> PCall(PC("sum", tk, p, NoExpr))
  [] c.fn = "sum" ->
       LET r == PCall(PC("product", tk, p, NoExpr))
       IN IF ~r.ok THEN PFail ELSE PCall(PC("sum_rest", tk, r.p, r.v))
  [] c.fn = "sum_rest" ->
       IF KindAt(tk, p) \in {"Add", "Sub"} THEN
         LET r == PCall(PC("product", tk, p + 1, NoExpr))
         IN IF ~r.ok THEN POk(c.acc, p)
            ELSE PCall(PC("sum_rest", tk, r.p,
                          IF KindAt(tk, p) = "Add" THEN PAdd(c.acc, r.v) ELSE PSub(c.acc, r.v)))
       ELSE POk(c.acc, p)
  [] c.fn = "product" ->
       LET r == PCall(PC("unary", tk, p, NoExpr))
       IN IF ~r.ok THEN PFail ELSE PCall(PC("product_rest", tk, r.p, r.v))
  [] c.fn = "product_rest" ->
       IF KindAt(tk, p) \in {"Mul", "Div"} THEN
         LET r == PCall(PC("unary", tk, p + 1, NoExpr))
         IN IF ~r.ok THEN POk(c.acc, p)
            ELSE PCall(PC("product_rest", tk, r.p,
                          IF KindAt(tk, p) = "Mul" THEN PMul(c.acc, r.v) ELSE PDiv(c.acc, r.v)))
       ELSE POk(c.acc, p)
  [] c.fn = "unary" ->
       IF KindAt(tk, p) = "Sub" THEN
         LET r == PCall(PC("unary", tk, p + 1, NoExpr))
         IN IF ~r.ok THEN PFail ELSE POk(Neg(r.v), r.p)
       ELSE PCall(PC("atom", tk, p, NoExpr))
  [] c.fn = "atom" ->
       IF KindAt(tk, p) = "Number" THEN POk(Const(tk[p].n), p + 1)
       ELSE IF KindAt(tk, p) = "LeftParen" THEN
         LET r == PCall(PC("expr", tk, p + 1, NoExpr))
         IN IF r.ok /\ KindAt(tk, r.p) = "RightParen" THEN POk(r.v, r.p + 1) ELSE PFail
       ELSE IF KindAt(tk, p) = "Symbol" THEN
         LET cs == tk[p].cs
             args == PCall(PC("args", tk, p + 2, <<>>))
         IN IF KindAt(tk, p + 1) = "LeftBr" /\ KindAt(tk, args.p) = "RightBr"
            THEN POk(Function(StrOf(cs), args.v), args.p + 1)
            ELSE IF Len(cs) = 1 THEN POk(Symbol(cs[1]), p + 1)
            ELSE POk(Product([i \in 1..Len(cs) |-> Symbol(cs[i])]), p + 1)
       ELSE PFail
  [] c.fn = "args" ->
       LET r == PCall(PC("expr", tk, p, NoExpr))
       IN IF ~r.ok THEN POk(c.acc, p)
          ELSE IF KindAt(tk, r.p) = "Comma" THEN PCall(PC("args", tk, r.p + 1, Append(c.acc, r.v)))
          ELSE POk(Append(c.acc, r.v), r.p)

\* parse_into_expression: tokenize, then expr.then_ignore(end())
parse_into_expression(t) ==
  LET ts == scan_tokens(t, 1, <<>>) IN
  IF ts.k = "panic" THEN [k |-> "panic", v |-> NoExpr]
  ELSE LET r == PCall(PC("expr", ts.v, 1, NoExpr))
       IN IF r.ok /\ r.p = Len(ts.v) + 1 THEN [k |-> "ok", v |-> r.v]
          ELSE [k |-> "err", v |-> NoExpr]

(*************************** print::to_latex ******************************)

RECURSIVE NatStr(_)
NatStr(n) == IF n < 10 THEN Digits[n + 1] ELSE NatStr(n \div 10) \o Digits[(n % 10) + 1]
IntStr(n) == IF n < 0 THEN "-" \o NatStr(-n) ELSE NatStr(n)

\* Printing result: [k |-> "ok", v |-> text] or [k |-> "panic", v |-> ""]
Str(t) == [k |-> "ok", v |-> t]
Cat(r1, r2) == IF r1.k = "ok" /\ r2.k = "ok" THEN Str(r1.v \o r2.v) ELSE [k |-> "panic", v |-> ""]

RECURSIVE JoinLatex(_, _, _)
RECURSIVE latex_print(_)
JoinLatex(l, i, sep) ==
  IF i > Len(l) THEN Str("")
  ELSE Cat(Cat(Str(IF i = 1 THEN "" ELSE sep), latex_print(l[i])), JoinLatex(l, i + 1, sep))
latex_print(x) ==
  CASE x.t = "Const" /\ x.c[2] = 1 -> Str(IntStr(x.c[1]))
    [] x.t = "Const" -> Str("\\frac { " \o IntStr(x.c[1]) \o " } { " \o IntStr(x.c[2]) \o " }")
    [] x.t = "Symbol" -> Str(x.s)
    [] x.t = "Product" -> IF x.l = <<>> THEN [k |-> "panic", v |-> ""]
                          ELSE JoinLatex(x.l, 1, " \\cdot ")
    [] x.t = "Sum" -> JoinLatex(x.l, 1, " + ")
    [] x.t = "Pow" -> Cat(Cat(Cat(Str("("), latex_print(x.l[1])), Str(")^{")),
                          Cat(latex_print(x.l[2]), Str("}")))
    [] x.t = "Factorial" -> Cat(latex_print(x.l[1]), Str("!"))
    [] x.t = "Function" -> Cat(Cat(Str(x.s \o "("), JoinLatex(x.l, 1, ", ")), Str(")"))

(*************************** acas-gui: the parse command ******************)

\* parse(expression): Err(format!("{x:?}")) on a parse error, otherwise the
\* LaTeX of the simplified value or "undefined"
HostParse(t) ==
  LET pr == parse_into_expression(t) IN
  IF pr.k # "ok" THEN [k |-> pr.k, v |-> ""]
  ELSE LET sr == SimplifyBasic(pr.v)
       IN IF sr.k = "ok" THEN latex_print(sr.v)
          ELSE IF sr.k = "undef" THEN [k |-> "ok", v |-> "undefined"]
          ELSE [k |-> "panic", v |-> ""]

(*************************** Inputs **************************************)

MaxLen == 3
MaxCoeff == 3
MaxConst == 2
MaxExp == 2

SymX == Symbol("x")
SymY == Symbol("y")
XY == Product(<<SymX, SymY>>)
Coeffs == (-1..MaxCoeff) \ {0}
SeqsOf(S, k) == [1..k -> S]

\* Sums of integer multiples c*t of one term t
LikeTerms == {SymX, Pow(SymX, SymY)}
LikeChildren(t) == {t} \cup {Product(<<Const(c), t>>) : c \in Coeffs}
LikeInputs == UNION {{Sum(sq) : sq \in SeqsOf(LikeChildren(t), k)} :
                     k \in 2..MaxLen, t \in LikeTerms}

\* Powers over small bases and exponents
PowBases == {Const(0), Const(1), Const(2), Const(-1), SymX, Pow(SymX, SymY),
             Sum(<<SymX, SymY>>), Pow(Const(0), SymX)}
PowExps == {Const(n) : n \in -MaxExp..MaxExp} \cup
           {Lit(1, 2), Lit(-1, 2), SymY, Sum(<<SymX, SymY>>), Pow(Const(0), Const(0))}
PowInputs == {Pow(b, e) : b \in PowBases, e \in PowExps}

\* Sums of two constants
ConstVals == {Const(n) : n \in -MaxConst..MaxConst} \cup {Lit(1, 2), Lit(-1, 2)}
ConstSums == {Sum(<<a, b>>) : a \in ConstVals, b \in ConstVals}

\* Identity and absorbing element next to an arbitrary operand
XSet == {Const(0), Const(1), Const(2), Lit(1, 2), SymX, SymY, Sum(<<SymX, SymY>>),
         Product(<<Const(2), SymY>>), Product(<<SymX, SymY>>), Pow(SymX, SymY),
         Pow(Const(0), Const(0)), Sum(<<SymX, Product(<<Const(-1), SymX>>)>>)}
IdentInputs == {Sum(<<Const(0), e>>) : e \in XSet} \cup
               {Product(<<Const(1), e>>) : e \in XSet} \cup
               {Product(<<Const(0), e>>) : e \in XSet}

\* Undefined literals and operands next to other operands
UndefOperands == {Pow(Const(0), Const(0)), Pow(Const(0), Const(-1)), Lit(1, 0)}
OtherOperands == {SymX, Const(2), Product(<<SymX, SymX>>), Sum(<<SymX, Const(1)>>)}
UndefInputs == {Lit(1, 0), Lit(0, 0)} \cup
  UNION {{Mk(op, <<0, 1>>, "", <<a, b>>), Mk(op, <<0, 1>>, "", <<b, a>>)} :
         op \in Ops, a \in OtherOperands, b \in UndefOperands}

\* Sums and products of up to MaxLen atoms, and of pairs of small terms
Atoms == {Const(0), Const(1), Const(2), SymX, SymY}
Smalls == Atoms \cup {Sum(<<SymX, SymY>>), Product(<<SymX, SymY>>), Product(<<Const(2), SymX>>)}
GeneralInputs ==
  UNION {{Mk(op, <<0, 1>>, "", sq) : sq \in SeqsOf(Atoms, k)} : op \in Ops, k \in 0..MaxLen}
  \cup UNION {{Mk(op, <<0, 1>>, "", sq) : sq \in SeqsOf(Smalls, 2)} : op \in Ops}

\* Sums and products nested to the right over three small terms
AssocAtoms == {Const(2), SymX, SymY, Product(<<SymX, SymY>>)}
AssocInputs == {Mk(op, <<0, 1>>, "", <<a, Mk(op, <<0, 1>>, "", <<b, c>>)>>) :
                op \in Ops, a \in AssocAtoms, b \in AssocAtoms, c \in AssocAtoms}

\* Factorial and function nodes over small operands
NodeArgs == {SymX, Const(2), Product(<<Const(1), SymX>>)}
NodeInputs == {Factorial(a) : a \in NodeArgs} \cup {Function("f", <<a>>) : a \in NodeArgs}
              \cup {Function("g", <<>>)}

\* Sums and products of three terms, some of them of the same operation
SymZ == Symbol("z")
NestAtoms == {SymX, SymY, SymZ, Sum(<<SymY, SymZ>>), Product(<<SymY, SymZ>>)}
NestInputs == {Mk(op, <<0, 1>>, "", sq) : op \in Ops, sq \in SeqsOf(NestAtoms, 3)}

\* Powers of simplified powers by integer constants
NestedPowInputs == {Pow(Pow(b, e1), Const(n)) :
                    b \in {SymX, Const(2)}, e1 \in {Lit(1, 2), Lit(-1, 2), SymY}, n \in -MaxExp..MaxExp}

Inputs == LikeInputs \cup PowInputs \cup ConstSums \cup IdentInputs \cup UndefInputs
          \cup GeneralInputs \cup AssocInputs \cup NodeInputs
          \cup NestInputs \cup NestedPowInputs

\* Simple expressions compared by the canonical order
\* Texts of up to MaxText characters over a small alphabet
MaxText == 3
Alphabet == {"x", "y", "2", " ", "^", "-", "*", "/", "%"}
Texts == UNION {[1..k -> Alphabet] : k \in 0..MaxText}

\* Canonically sorted lists of simplified operands of one operation
MaxMerge == 2
MergeElems(op) ==
  IF op = "Sum" THEN {Const(2), SymX, SymY, Product(<<Const(2), SymX>>), XY, Pow(SymX, SymY)}
  ELSE {Const(2), SymX, SymY, Pow(SymX, SymY), Sum(<<SymX, SymY>>)}
SortedSeq(l) == \A i \in 1..(Len(l) - 1) : Less(l[i], l[i + 1])
MergeLists(op) == {l \in UNION {SeqsOf(MergeElems(op), k) : k \in 0..MaxMerge} :
                     SortedSeq(l) /\ \A i \in 1..Len(l) : l[i].t = "Const" => i = 1}

CmpDom == {Const(0), Const(2), SymX, SymY,
           Product(<<Const(2), SymX>>), Product(<<SymX, SymY>>),
           Product(<<Const(2), SymX, SymY>>), Pow(SymX, Const(2)), Pow(SymX, SymY),
           Sum(<<SymX, SymY>>), Sum(<<Product(<<Const(2), SymX>>), SymY>>),
           Factorial(SymX), Function("f", <<SymX>>), Function("x", <<SymY>>)}

(*************************** State machine *******************************)

VARIABLES mode, expr, result, ca, cb, cc, ord, text, parsed, host, mop, ma, mb, mres
vars == <<mode, expr, result, ca, cb, cc, ord, text, parsed, host, mop, ma, mb, mres>>

NoResult == [k |-> "none", v |-> NoExpr]
NoOrd == [ab |-> 2, ba |-> 2, bc |-> 2, ac |-> 2]
NoParse == [k |-> "none", v |-> NoExpr]
NoHost == [k |-> "none", v |-> ""]
NoMergeResult == [k |-> "none", v |-> <<>>]
NoMerge == mop = "Sum" /\ ma = <<>> /\ mb = <<>> /\ mres = NoMergeResult

Init ==
  \/ /\ mode = "simplify"
     /\ expr \in Inputs
     /\ result = NoResult
     /\ ca = NoExpr /\ cb = NoExpr /\ cc = NoExpr
     /\ ord = NoOrd
     /\ text = <<>> /\ parsed = NoParse /\ host = NoHost
     /\ NoMerge
  \/ /\ mode = "cmp"
     /\ expr = NoExpr
     /\ result = NoResult
     /\ ca \in CmpDom /\ cb \in CmpDom /\ cc \in CmpDom
     /\ ord = NoOrd
     /\ text = <<>> /\ parsed = NoParse /\ host = NoHost
     /\ NoMerge
  \/ /\ mode = "text"
     /\ expr = NoExpr
     /\ result = NoResult
     /\ ca = NoExpr /\ cb = NoExpr /\ cc = NoExpr
     /\ ord = NoOrd
     /\ text \in Texts /\ parsed = NoParse /\ host = NoHost
     /\ NoMerge
  \/ /\ mode = "merge"
     /\ expr = NoExpr
     /\ result = NoResult
     /\ ca = NoExpr /\ cb = NoExpr /\ cc = NoExpr
     /\ ord = NoOrd
     /\ text = <<>> /\ parsed = NoParse /\ host = NoHost
     /\ mop \in Ops /\ ma \in MergeLists(mop) /\ mb \in MergeLists(mop) /\ mres = NoMergeResult

\* BasicAlgebraicExpr::simplify on the input
Simplify ==
  /\ mode = "simplify"
  /\ result = NoResult
  /\ result' = SimplifyBasic(expr)
  /\ UNCHANGED <<mode, expr, ca, cb, cc, ord, text, parsed, host, mop, ma, mb, mres>>

\* Ord::cmp on the compared expressions
Compare ==
  /\ mode = "cmp"
  /\ ord = NoOrd
  /\ ord' = [ab |-> Cmp(ca, cb), ba |-> Cmp(cb, ca), bc |-> Cmp(cb, cc), ac |-> Cmp(ca, cc)]
  /\ UNCHANGED <<mode, expr, result, ca, cb, cc, text, parsed, host, mop, ma, mb, mres>>

\* parse::parse_into_expression on the input text
Parse ==
  /\ mode = "text"
  /\ parsed = NoParse
  /\ parsed' = parse_into_expression(text)
  /\ UNCHANGED <<mode, expr, result, ca, cb, cc, ord, text, host, mop, ma, mb, mres>>

\* the GUI's parse command on the input text
Host ==
  /\ mode = "text"
  /\ host = NoHost
  /\ host' = HostParse(text)
  /\ UNCHANGED <<mode, expr, result, ca, cb, cc, ord, text, parsed, mop, ma, mb, mres>>

\* Operation::merge on two sorted lists
Merge ==
  /\ mode = "merge"
  /\ mres = NoMergeResult
  /\ mres' = merge(mop, ma, mb)
  /\ UNCHANGED <<mode, expr, result, ca, cb, cc, ord, text, parsed, host, mop, ma, mb>>

Next == Simplify \/ Compare \/ Parse \/ Host \/ Merge

Spec == Init /\ [][Next]_vars

(*************************** Properties **********************************)

Done == result.k # "none"
Simplified == mode = "simplify" /\ Done
Compared == mode = "cmp" /\ ord # NoOrd

RECURSIVE Nodes(_)
Nodes(e) == {e} \cup UNION {Nodes(e.l[i]) : i \in 1..Len(e.l)}

RECURSIVE CSumAll(_)
CSumAll(l) == IF l = <<>> THEN <<0, 1>> ELSE CAdd(Head(l), CSumAll(Tail(l)))

\* The non-constant part of a sum child after splitting off a leading
\* rational coefficient, and that coefficient.
FirstNonConst(e) == CHOOSE i \in 1..Len(e.l) :
                      e.l[i].t # "Const" /\ \A j \in 1..(i - 1) : e.l[j].t = "Const"
NonConstPart(e) ==
  IF e.t = "Const" THEN NoExpr
  ELSE IF e.t = "Product" THEN
    IF \A i \in 1..Len(e.l) : e.l[i].t = "Const" THEN NoExpr
    ELSE LET syms == SubSeq(e.l, FirstNonConst(e), Len(e.l))
         IN IF Len(syms) = 1 THEN syms[1] ELSE Product(syms)
  ELSE e
LeadingCoeff(e) ==
  IF e.t = "Product" /\ \E i \in 1..Len(e.l) : e.l[i].t # "Const"
  THEN MulAll([j \in 1..(FirstNonConst(e) - 1) |-> e.l[j].c])
  ELSE <<1, 1>>

\* A basic Sum whose children are all t or Product[c, t] for one term t
LikeTermOf(e) == IF e.l[1].t = "Product" THEN e.l[1].l[2] ELSE e.l[1]
IsMultipleOf(ch, t) ==
  \/ ch = t
  \/ ch.t = "Product" /\ Len(ch.l) = 2 /\ ch.l[1].t = "Const" /\ ch.l[2] = t
IsLikeSum(e) ==
  /\ e.t = "Sum" /\ Len(e.l) >= 2
  /\ LikeTermOf(e).t \notin {"Const", "Product", "Sum"}
  /\ \A i \in 1..Len(e.l) : IsMultipleOf(e.l[i], LikeTermOf(e))
CoeffSum(e) == CSumAll([i \in 1..Len(e.l) |->
                  IF e.l[i] = LikeTermOf(e) THEN <<1, 1>> ELSE e.l[i].l[1].c])
\* v is the single term S * t
IsSingleTerm(v, S, t) ==
  IF v.t = "Const" THEN CIsZero(S) /\ CIsZero(v.c)
  ELSE v.t # "Sum" /\ LeadingCoeff(v) = S /\ NonConstPart(v) = t

NoSharedPart(v) ==
  \A n \in Nodes(v) : n.t = "Sum" =>
    \A i, j \in 1..Len(n.l) :
      (i # j /\ NonConstPart(n.l[i]) # NoExpr) => NonConstPart(n.l[i]) # NonConstPart(n.l[j])

\* C1: a Sum of integer multiples of one term t simplifies to the single
\* term (c1 + ... + ck) * t, and no output Sum has two children with the
\* same non-constant part.
C1_LikeTermCollection ==
  Simplified =>
    /\ IsLikeSum(expr) =>
         result.k = "ok" /\ IsSingleTerm(result.v, CoeffSum(expr), LikeTermOf(expr))
    /\ result.k = "ok" => NoSharedPart(result.v)

SimpBase == SimplifyBasic(expr.l[1])
SimpExp == SimplifyBasic(expr.l[2])
IsIntConst(e) == e.t = "Const" /\ CIsInteger(e.c)

\* C2: power normal form: 1^e = 1, b^0 = 1 for b # 0, 0^n = 0 for a positive
\* integer n, and 0^e stays Pow(0, e) for a non-constant e.
C2_PowerNormalForm ==
  (Simplified /\ expr.t = "Pow" /\ SimpBase.k = "ok" /\ SimpExp.k = "ok") =>
    /\ EqInt(SimpBase.v, 1) => result = Ok(Const(1))
    /\ (EqInt(SimpExp.v, 0) /\ ~EqInt(SimpBase.v, 0)) => result = Ok(Const(1))
    /\ (EqInt(SimpBase.v, 0) /\ IsIntConst(SimpExp.v) /\ SimpExp.v.c[1] > 0)
         => result = Ok(Const(0))
    /\ (EqInt(SimpBase.v, 0) /\ SimpExp.v.t # "Const")
         => result = Ok(Pow(SimpBase.v, SimpExp.v))

C2_Witness ==
  /\ Simplified /\ expr.t = "Pow" /\ EqInt(SimpBase.v, 1) /\ SimpExp.v.t # "Const"
  /\ result = Ok(Const(1))

\* C3: 0^c is Undefined for a non-positive integer constant c, a literal with
\* a zero denominator is Undefined, and any Undefined sub-expression makes the
\* whole simplification Undefined.
C3_UndefinedPoisoning ==
  Simplified =>
    /\ (expr.t = "Pow" /\ SimpBase.k = "ok" /\ SimpExp.k = "ok" /\ EqInt(SimpBase.v, 0)
        /\ IsIntConst(SimpExp.v) /\ SimpExp.v.c[1] <= 0) => result.k = "undef"
    /\ (expr.t = "Const" /\ expr.c[2] = 0) => result.k = "undef"
    /\ (\E sub \in Nodes(expr) : SimplifyBasic(sub).k = "undef") => result.k = "undef"

\* C4: a Sum of two constants simplifies to the constant of their sum.
C4_ConstantFolding ==
  (Simplified /\ expr.t = "Sum" /\ Len(expr.l) = 2
   /\ \A i \in 1..2 : expr.l[i].t = "Const" /\ expr.l[i].c[2] # 0)
    => result = Ok(ConstC(CAdd(expr.l[1].c, expr.l[2].c)))

\* C5: Sum[0, x] and Product[1, x] simplify as x does, Product[0, x] to 0,
\* for every x whose simplification is defined.
Operand == SimplifyBasic(expr.l[2])
C5_IdentityAbsorption ==
  (Simplified /\ expr.t \in Ops /\ Len(expr.l) = 2 /\ Operand.k = "ok") =>
    /\ (expr.t = "Sum" /\ expr.l[1] = Const(0)) => result = Operand
    /\ (expr.t = "Product" /\ expr.l[1] = Const(1)) => result = Operand
    /\ (expr.t = "Product" /\ expr.l[1] = Const(0)) => result = Ok(Const(0))

\* C6: the canonical order is antisymmetric, transitive, and Equal exactly
\* on structurally equal expressions.
C6_TotalOrder ==
  Compared =>
    /\ ord.ab \in {-1, 0, 1}
    /\ ord.ab = -ord.ba
    /\ (ord.ab = 0) <=> (ca = cb)
    /\ (ord.ab = -1 /\ ord.bc = -1) => ord.ac = -1

\* Reverse lexicographic order: rightmost elements first, then length.
RECURSIVE RevLexFrom(_, _, _)
RevLexFrom(a, b, i) ==
  IF i >= Len(a) \/ i >= Len(b) THEN IntCmp(Len(a), Len(b))
  ELSE LET r == Cmp(a[Len(a) - i], b[Len(b) - i])
       IN IF r # 0 THEN r ELSE RevLexFrom(a, b, i + 1)
RevLex(a, b) == RevLexFrom(a, b, 0)
ListOf(op, e) == IF e.t = op THEN e.l ELSE <<e>>
ProductCase == ca.t = "Product" \/ cb.t = "Product"
SumCase == (ca.t = "Sum" \/ cb.t = "Sum") /\ ca.t # "Pow" /\ cb.t # "Pow"

\* C7: products (and sums) compare reverse-lexicographically, a non-product
\* against a product as the singleton product.
C7_ReverseLexicographic ==
  (Compared /\ ca # cb /\ ca.t # "Const" /\ cb.t # "Const") =>
    /\ ProductCase => ord.ab = RevLex(ListOf("Product", ca), ListOf("Product", cb))
    /\ (~ProductCase /\ SumCase) => ord.ab = RevLex(ListOf("Sum", ca), ListOf("Sum", cb))

\* Canonical-form invariants of one Sum/Product node
SortedStrict(n) == \A i \in 1..(Len(n.l) - 1) : Less(n.l[i], n.l[i + 1])
NoSameOpChild(n) == \A i \in 1..Len(n.l) : n.l[i].t # n.t
OneConstFirst(n) == \A i \in 1..Len(n.l) : n.l[i].t = "Const" => i = 1

\* C8: every Sum/Product of a defined result is strictly sorted, has no
\* same-op child, and holds at most one Const child, placed first.
C8_Canonicality ==
  (Simplified /\ result.k = "ok") =>
    \A n \in Nodes(result.v) : n.t \in Ops =>
      SortedStrict(n) /\ NoSameOpChild(n) /\ OneConstFirst(n)

\* C9: no output Sum/Product has fewer than two children; an empty Sum or
\* Product simplifies to its identity and a one-child one to that child.
C9_SingletonCollapse ==
  Simplified =>
    /\ result.k = "ok" => \A n \in Nodes(result.v) : n.t \in Ops => Len(n.l) >= 2
    /\ (expr.t \in Ops /\ Len(expr.l) = 0) => result = Ok(identity(expr.t))
    /\ (expr.t \in Ops /\ Len(expr.l) = 1 /\ SimplifyBasic(expr.l[1]).k = "ok")
         => result = SimplifyBasic(expr.l[1])

\* C10: no output Product contains Const(0).
C10_NoAbsorbingInProduct ==
  (Simplified /\ result.k = "ok") =>
    \A n \in Nodes(result.v) : n.t = "Product" =>
      \A i \in 1..Len(n.l) : ~EqInt(n.l[i], 0)

\* C11: swapping the two operands of a Sum or Product, or regrouping
\* op[a, op[b, c]] as op[op[a, b], c], does not change the simplified result
\* when every operand simplifies to a value.
OpOf(e, l) == Mk(e.t, <<0, 1>>, "", l)
AllDefined(l) == \A i \in 1..Len(l) : SimplifyBasic(l[i]).k = "ok"
IsAssocCase == /\ expr.t \in Ops /\ Len(expr.l) = 2
               /\ expr.l[2].t = expr.t /\ Len(expr.l[2].l) = 2
C11_CommAssoc ==
  Simplified /\ expr.t \in Ops /\ Len(expr.l) = 2 =>
    /\ AllDefined(expr.l) => result = SimplifyBasic(OpOf(expr, <<expr.l[2], expr.l[1]>>))
    /\ IsAssocCase /\ AllDefined(<<expr.l[1], expr.l[2].l[1], expr.l[2].l[2]>>) =>
         result = SimplifyBasic(OpOf(expr, <<OpOf(expr, <<expr.l[1], expr.l[2].l[1]>>),
                                               expr.l[2].l[2]>>))

\* Conversion of a simple expression back to a basic expression, variant by
\* variant.
RECURSIVE ToBasic(_)
ToBasic(s) == Mk(s.t, s.c, s.s, [i \in 1..Len(s.l) |-> ToBasic(s.l[i])])

\* C12: a simplified value converted back to a basic expression simplifies
\* to itself.
C12_Idempotence ==
  Simplified /\ result.k = "ok" => SimplifyBasic(ToBasic(result.v)) = result

\* C13: like bases in a product are collected into a power, and a symbolic
\* base raised to an integer n >= 2 stays Pow(base, n) without failing:
\* x*x gives Pow(x, 2) and (x*y)*(x*y) gives Product[Pow(x, 2), Pow(y, 2)].
IsSymbolicPowCase ==
  /\ expr.t = "Pow" /\ expr.l[2].t = "Const" /\ CIsInteger(expr.l[2].c)
  /\ expr.l[2].c[1] >= 2
  /\ SimplifyBasic(expr.l[1]).k = "ok"
  /\ SimplifyBasic(expr.l[1]).v.t \notin {"Const", "Pow"}
C13_LikeBaseProduct ==
  Simplified =>
    /\ expr = Product(<<SymX, SymX>>) => result = Ok(Pow(SymX, Const(2)))
    /\ expr = Product(<<XY, XY>>) =>
         result = Ok(Product(<<Pow(SymX, Const(2)), Pow(SymY, Const(2))>>))
    /\ IsSymbolicPowCase =>
         result = Ok(Pow(SimplifyBasic(expr.l[1]).v, expr.l[2]))

\* C14: Factorial and Function nodes keep their shape with simplified
\* operands, and simplify returns a value for them.
C14_NodesPreserved ==
  Simplified =>
    /\ expr.t = "Factorial" /\ SimplifyBasic(expr.l[1]).k = "ok" =>
         result = Ok(Factorial(SimplifyBasic(expr.l[1]).v))
    /\ expr.t = "Function" /\ AllDefined(expr.l) =>
         result = Ok(Function(expr.s, [i \in 1..Len(expr.l) |-> SimplifyBasic(expr.l[i]).v]))

\* C15: parsing a text either yields an expression or a parse error, and
\* the parse command returns a LaTeX string, "undefined" or a parse error,
\* never aborting; characters outside the accepted set give a parse error.
TextParsed == mode = "text" /\ parsed # NoParse
TextHosted == mode = "text" /\ host # NoHost
C15_ParseErrors ==
  /\ TextParsed => parsed.k \in {"ok", "err"}
  /\ TextHosted => host.k \in {"ok", "err"}

\* C16: 'x ^ y' parses to Pow(x, y), 'xy' to Product[x, y], 'x/y' to
\* Product[x, Pow(y, -1)] and 'x-y' to Sum[x, Neg(y)].
ParsesTo(t, e) == TextParsed /\ text = t => parsed = [k |-> "ok", v |-> e]
C16_ParserGrammar ==
  /\ ParsesTo(<<"x", "^", "y">>, Pow(SymX, SymY))
  /\ ParsesTo(<<"x", "y">>, Product(<<SymX, SymY>>))
  /\ ParsesTo(<<"x", "/", "y">>, Product(<<SymX, Pow(SymY, Const(-1))>>))
  /\ ParsesTo(<<"x", "-", "y">>, Sum(<<SymX, Neg(SymY)>>))

\* C17: merging two canonically sorted lists gives a sorted list; when the
\* heads' simplify_pair returns two elements, the smaller is emitted and the
\* larger is put back at the head of the tail that owned the smaller.
Merged == mode = "merge" /\ mres # NoMergeResult
HeadPair == Call([fn |-> "simplify_pair", op |-> mop, a |-> Head(ma), b |-> Head(mb)])
PairOfTwo == ma # <<>> /\ mb # <<>> /\ HeadPair.k = "ok" /\ Len(HeadPair.v) = 2
C17_SortedMerge ==
  LET first == HeadPair.v[1]
      second == HeadPair.v[2]
      \* the merge continued as the claim describes it
      reinsertIntoOwnerOfSmaller ==
        IF first = Head(ma)
        THEN Call(MergeCall(mop, <<second>> \o Tail(ma), Tail(mb), <<first>>))
        ELSE Call(MergeCall(mop, Tail(ma), <<second>> \o Tail(mb), <<first>>))
  IN Merged /\ mres.k = "ok" =>
       /\ SortedSeq(mres.v)
       /\ PairOfTwo => mres = reinsertIntoOwnerOfSmaller

\* C18: a Sum (Product) of three or more children, some simplifying to a
\* Sum (Product), simplifies to a value without same-operation children.
IsNestCase ==
  /\ expr.t \in Ops /\ Len(expr.l) >= 3 /\ AllDefined(expr.l)
  /\ \E i \in 1..Len(expr.l) : SimplifyBasic(expr.l[i]).v.t = expr.t
C18_FlattenNoAbort ==
  Simplified /\ IsNestCase =>
    /\ result.k = "ok"
    /\ result.v.t = expr.t => NoSameOpChild(result.v)

\* C19: a simplified Pow(b, e1) raised to an integer constant n gives
\* simplify_power(b, e1*n) when e1*n simplifies to an integer constant, and
\* Pow(b, e1*n) otherwise.
InnerPow == SimplifyBasic(expr.l[1])
OuterExp == SimplifyBasic(expr.l[2])
IsNestedPowCase ==
  /\ Simplified /\ expr.t = "Pow"
  /\ InnerPow.k = "ok" /\ InnerPow.v.t = "Pow"
  /\ OuterExp.k = "ok" /\ OuterExp.v.t = "Const" /\ CIsInteger(OuterExp.v.c)
ScaledExp == Call(SimplifyCall("Product", <<OuterExp.v, InnerPow.v.l[2]>>))
C19_NestedPowerCollapse ==
  IsNestedPowCase /\ ScaledExp.k = "ok" =>
    result = IF ScaledExp.v.t = "Const" /\ CIsInteger(ScaledExp.v.c)
             THEN Call(PowerCall(InnerPow.v.l[1], ScaledExp.v))
             ELSE Ok(Pow(InnerPow.v.l[1], ScaledExp.v))

\* C20: Pow(0, e) with a constant exponent gives 0 only for a positive
\* integer e; a positive non-integer constant exponent stays Pow(0, e).
IsZeroBaseConstCase ==
  /\ Simplified /\ expr.t = "Pow"
  /\ SimplifyBasic(expr.l[1]) = Ok(Const(0))
  /\ OuterExp.k = "ok" /\ OuterExp.v.t = "Const" /\ CIsPositive(OuterExp.v.c)
C20_ZeroBase ==
  IsZeroBaseConstCase =>
    result = IF CIsInteger(OuterExp.v.c) THEN Ok(Const(0)) ELSE Ok(Pow(Const(0), OuterExp.v))

====

